---- MODULE Spec2Model ----
(***************************************************************************)
(* The collaboration relay of apps/backend/src/services/websocket.ts:      *)
(* the module-level room map, the per-connection closure variables of      *)
(* setupWebSocket, the socket.io adapter's room membership, and one action *)
(* per socket event handler.  A handler runs to completion on the event    *)
(* loop, so every action is one whole handler.  The population is two      *)
(* sockets, two room ids and two document ids; texts are bounded in length.*)
(* Further specifications put the same handlers behind each socket's       *)
(* packet queues (TransportSpec), add the EditorPane clients' local text   *)
(* (EditorsSpec), drive one room with fixed texts (ScenarioSpec), and      *)
(* follow a chat message through useOllama.sendMessage, the /chat route    *)
(* and OllamaService.chat (ChatSpec).                                      *)
(***************************************************************************)
EXTENDS Integers, FiniteSets, Sequences, TLC

\* ------------------------------------------------------------------ bounds
MaxText == 1

\* The number of cursor moves and changes one client issues after its join.
MaxIssued == 2

\* The number of saveFile calls of one desktop client that are in flight at once.
MaxSaves == 1

\* The number of operations the AI proposes, and of applyOperation calls in
\* flight at once.
MaxOperations == 2
MaxCalls == 2

\* Math.random() returns k / RandomSteps for a k in 0..RandomSteps-1.
RandomSteps == 24

\* Socket ids, in the order the transport hands them out.
ConnOrder == <<"A", "B">>
Conns == {ConnOrder[i] : i \in DOMAIN ConnOrder}
ConnsBefore(c) == {ConnOrder[i] : i \in {j \in DOMAIN ConnOrder : \E k \in DOMAIN ConnOrder : j < k /\ ConnOrder[k] = c}}

\* Room ids, document ids and display names clients send with JOIN_ROOM.
RoomIds == {"doc1", "doc2"}
FileIds == {"f1", "f2"}

\* The files of the project folder the desktop client can open in tabs.
TabFiles == FileIds \cup {"f3", "f4"}

\* The ids of the proposed operations, in the order they are proposed.
OperationIds == 1..MaxOperations
UserNames == {"user"}

\* The text of length n; Text(0) is the empty string ''.
Text(n) == [i \in 1..n |-> "x"]
Texts == {Text(n) : n \in 0..MaxText}

\* Cursor positions clients send with CURSOR_MOVE.
CursorInputs == {[line |-> 1, column |-> 2]}

\* ------------------------------------------------------------------ values
\* null / undefined of the source.
NoRoom == "null"
NoCursor == [line |-> 0, column |-> 0]
NoUser == [id |-> "null", name |-> "null", cursor |-> NoCursor]
NoText == <<"undefined">>
NoFile == "null"
NoReturn == [id |-> 0, value |-> FALSE]
NoTree == <<[type |-> "none"]>>
NoUsers == << >>

\* WS_EVENTS (join, leave, cursorMove, contentChange, syncRequest as sent by
\* clients; sync, participantJoined, participantLeft as sent by the relay), and
\* the transport's own events.
JOIN_ROOM == "collab:join"
LEAVE_ROOM == "collab:leave"
CURSOR_MOVE == "collab:cursor_move"
CODE_CHANGE == "collab:code_change"
SYNC_REQUEST == "collab:sync_request"
SYNC_RESPONSE == "collab:sync_response"
USER_JOINED == "collab:user_joined"
USER_LEFT == "collab:user_left"
CONNECTION == "connection"
DISCONNECT == "disconnect"

VARIABLES
    status,         \* per socket id: "idle" (not yet connected), "connected", "disconnected"
    currentRoomId,  \* closure variable of the connection handler
    currentUser,    \* closure variable of the connection handler
    rooms,          \* the module-level Map<string, Room>
    sio,            \* socket.io adapter: room id -> set of joined socket ids
    out,            \* the messages emitted by the handler that ran last
    lastEvent,      \* the event that handler processed
    joined,         \* history: per room, who joined it and has not left it or disconnected since
    lastChange,     \* history: per room, the text of the last contentChange of the live room
    issued,         \* history: per socket, the events its client has emitted, in order
    inbox,          \* per socket, the client's events the relay has not dispatched yet
    outbox,         \* per socket, the relay's messages the client has not received yet
    delivered,      \* history: per socket, the messages its client has received, in order
    localText,      \* per socket, the document text in its client's editor store
    chatCall,       \* the useOllama hook's state and its chat request in progress
    userColor,      \* per room and participant, the color field of the participant's CollabUser
    pane,           \* per client, the file its EditorPane shows and whether its join effect has a cleanup
    openFiles,      \* useEditorStore: the open files, in tab order
    activeFileId,   \* useEditorStore: the id of the file the EditorPane shows
    disk,           \* per file, the content last written to it on disk
    storeCall,      \* history: the store action called last, with the tab index and the active file it found
    writes,         \* the saveFile calls whose writeFile has not returned yet
    pendingOperations,  \* useAIAgent: the operations proposed so far, with their status
    applying,       \* per operation, the applyOperation calls that await their file-system call
    applyAll,       \* the operations applyAllOperations has still to apply
    effects,        \* history: per operation, the file-system and editor calls made for it
    returned,       \* history: the applyOperation call that returned last, with its value
    projectRoot,    \* the directory GET /tree lists: its entries in readdir order
    tree            \* the FileNode[] GET /tree answered with last

\* The two directions of every socket's transport.
netVars == <<issued, inbox, outbox, delivered>>

\* The state of the client applications.
\* The state of the desktop application besides the collaboration text and the chat.
storeVars == <<openFiles, activeFileId, storeCall, disk, writes>>
agentVars == <<pendingOperations, applying, applyAll, effects, returned>>
deskVars == <<pane, storeVars, agentVars>>

\* The project directory of the backend's file routes and its listing.
treeVars == <<projectRoot, tree>>

appVars == <<localText, chatCall, deskVars, treeVars>>

vars == <<status, currentRoomId, currentUser, rooms, sio, out, lastEvent, joined, lastChange,
          issued, inbox, outbox, delivered, localText, chatCall, pane, userColor,
          openFiles, activeFileId, storeCall, disk, writes, projectRoot, tree,
          pendingOperations, applying, applyAll, effects, returned>>

\* ------------------------------------------------------------------ helpers
\* A CollabUser as created by JOIN_ROOM (cursor is unset until CURSOR_MOVE).
\* Its color is drawn by generateColor() and read by no handler; the record
\* here carries the fields the handlers and the payloads are compared on.
NewUser(c, n) == [id |-> c, name |-> n, cursor |-> NoCursor]

\* A Room as created by JOIN_ROOM for an unknown room id.
NewRoom(r, f) == [id |-> r, fileId |-> f, users |-> NoUsers, content |-> Text(0)]

\* Map.set on a function with a growing domain.
MapSet(m, k, v) == [x \in (DOMAIN m) \cup {k} |-> IF x = k THEN v ELSE m[x]]

\* Map.delete.
MapDelete(m, k) == [x \in (DOMAIN m) \ {k} |-> m[x]]

\* Mutant of BroadcastTo: io.to(roomId), which does not leave the sender out.
BroadcastToAll(s, c, r) == s[r]

\* socket.to(roomId): every socket the adapter state s has in roomId, except the sender.
BroadcastTo(s, c, r) == s[r] \ {c}

\* One emitted message, addressed to one socket.
Msg(to, type, from, r, content, users, cursor) ==
    [to |-> to, type |-> type, from |-> from, room |-> r,
     content |-> content, users |-> users, cursor |-> cursor]

\* The event a handler was called for: its name, the socket, the room the
\* handler resolved (currentRoomId, or the roomId of JOIN_ROOM) and the text sent.
Event(type, c, r, t) == [type |-> type, conn |-> c, room |-> r, text |-> t]

\* if (currentRoomId && currentUser)
InRoomGuard(c) == currentRoomId[c] # NoRoom /\ currentUser[c] # NoUser

\* ------------------------------------------------------------------ chat values
\* Error messages, as their words; includes(m, w) is String.includes for a word.
NoError == <<"null">>
includes(m, w) == \E i \in DOMAIN m : m[i] = w
FetchFailed == <<"fetch", "failed">>
FailedToFetch == <<"Failed", "to", "fetch">>
ChatFailed == <<"Chat", "failed">>
MessageRequired == <<"Message", "is", "required">>
NoResponseBody == <<"No", "response", "body">>
CannotConnect == <<"Cannot", "connect", "to", "backend.", "Make", "sure", "it's", "running", "on", "localhost:3001">>
HttpError(code) == <<"HTTP", "error!", "status:", code>>
Terminated == <<"terminated">>
NetworkError == <<"network", "error">>

\* The event the /chat route writes after the last chunk.
Done == "[DONE]"

\* What the LLM runtime does with the request of OllamaService.chat: it cannot
\* be reached, it answers with an error status, it answers without a body, or
\* it streams lines (a token, an error object, or a line that is not JSON);
\* "broken" is the point where the connection to the runtime breaks and
\* reader.read() rejects.
Runtime(kind, statusText, lines) == [kind |-> kind, statusText |-> statusText, lines |-> lines]
RuntimeUnreachable == Runtime("unreachable", "", << >>)
RuntimeErrors == {Runtime("status", t, << >>) : t \in {"Not Found", "Internal Server Error"}}
RuntimeStreams ==
    {Runtime("stream", "OK", l) :
        l \in {<< >>, <<"token">>, <<"error">>, <<"token", "malformed">>, <<"token", "token">>,
               <<"broken">>, <<"token", "broken">>}}
Runtimes == {RuntimeUnreachable, Runtime("nobody", "OK", << >>)} \cup RuntimeErrors \cup RuntimeStreams

\* The prompts a user submits; the first is blank.
Prompts == {"", "hi"}

\* An HTTP response of the backend.
Response(code, error, events) == [status |-> code, error |-> error, events |-> events]
NoResponse == Response("none", NoError, << >>)

\* The hook before the first message is sent.
ChatIdle ==
    [pc |-> "idle", prompt |-> "", backendUp |-> TRUE, runtime |-> RuntimeUnreachable,
     response |-> NoResponse, thrown |-> NoError,
     isLoading |-> FALSE, error |-> NoError, connectionStatus |-> "connecting", content |-> << >>]

\* ------------------------------------------------------------------ init
InitState ==
    /\ status = [c \in Conns |-> "idle"]
    /\ currentRoomId = [c \in Conns |-> NoRoom]
    /\ currentUser = [c \in Conns |-> NoUser]
    /\ rooms = << >>
    /\ sio = [r \in RoomIds |-> {}]
    /\ out = {}
    /\ lastEvent = Event("none", "null", NoRoom, NoText)
    /\ joined = [r \in RoomIds |-> {}]
    /\ lastChange = [r \in RoomIds |-> NoText]
    /\ issued = [c \in Conns |-> << >>]
    /\ inbox = [c \in Conns |-> << >>]
    /\ outbox = [c \in Conns |-> << >>]
    /\ delivered = [c \in Conns |-> << >>]
    /\ localText = [c \in Conns |-> Text(0)]
    /\ chatCall = ChatIdle
    /\ pane = [c \in Conns |-> [fileId |-> "none", cleanup |-> FALSE]]
    /\ openFiles = << >>
    /\ activeFileId = NoFile
    /\ storeCall = [name |-> "none", fileId |-> NoFile, index |-> -1, active |-> NoFile]
    /\ disk = [f \in TabFiles |-> Text(0)]
    /\ writes = << >>
    /\ userColor = [r \in RoomIds |-> << >>]
    /\ pendingOperations = << >>
    /\ applying = [o \in OperationIds |-> 0]
    /\ applyAll = << >>
    /\ effects = [o \in OperationIds |-> << >>]
    /\ returned = NoReturn

\* The backend starts in an empty project directory and has listed nothing.
Init ==
    /\ InitState
    /\ projectRoot = << >>
    /\ tree = NoTree

\* ------------------------------------------------------------------ actions
\* io.on('connection'): a new socket with fresh closure variables.
Connect(c) ==
    /\ status[c] = "idle"
    /\ \A d \in ConnsBefore(c) : status[d] # "idle"
    /\ status' = [status EXCEPT ![c] = "connected"]
    /\ currentRoomId' = [currentRoomId EXCEPT ![c] = NoRoom]
    /\ currentUser' = [currentUser EXCEPT ![c] = NoUser]
    /\ out' = {}
    /\ lastEvent' = Event(CONNECTION, c, NoRoom, NoText)
    /\ UNCHANGED <<rooms, sio, joined, lastChange>>

\* Mutant of JoinRoom: the rooms.has(roomId) test is dropped, so every join
\* installs a fresh room.
JoinRoomAlwaysCreates(c, r, f, n) ==
    LET user == NewUser(c, n)
        rooms1 == MapSet(rooms, r, NewRoom(r, f))
        users1 == MapSet(rooms1[r].users, c, user)
        sio1 == [sio EXCEPT ![r] = @ \cup {c}]
    IN  /\ status[c] = "connected"
        /\ currentRoomId' = [currentRoomId EXCEPT ![c] = r]
        /\ currentUser' = [currentUser EXCEPT ![c] = user]
        /\ rooms' = [rooms1 EXCEPT ![r].users = users1]
        /\ sio' = sio1
        /\ out' = {Msg(d, USER_JOINED, c, r, NoText, users1, NoCursor) : d \in BroadcastTo(sio1, c, r)}
                  \cup {Msg(c, SYNC_RESPONSE, c, r, rooms1[r].content, users1, NoCursor)}
        /\ lastEvent' = Event(JOIN_ROOM, c, r, NoText)
        /\ joined' = [joined EXCEPT ![r] = @ \cup {c}]
        /\ UNCHANGED <<status, lastChange>>

\* Mutant of JoinRoom: the payloads carry the participant list as it was before
\* the joiner was added.
JoinRoomListBefore(c, r, f, n) ==
    LET user == NewUser(c, n)
        rooms1 == IF r \in DOMAIN rooms THEN rooms ELSE MapSet(rooms, r, NewRoom(r, f))
        users1 == MapSet(rooms1[r].users, c, user)
        sio1 == [sio EXCEPT ![r] = @ \cup {c}]
    IN  /\ status[c] = "connected"
        /\ currentRoomId' = [currentRoomId EXCEPT ![c] = r]
        /\ currentUser' = [currentUser EXCEPT ![c] = user]
        /\ rooms' = [rooms1 EXCEPT ![r].users = users1]
        /\ sio' = sio1
        /\ out' = {Msg(d, USER_JOINED, c, r, NoText, rooms1[r].users, NoCursor) : d \in BroadcastTo(sio1, c, r)}
                  \cup {Msg(c, SYNC_RESPONSE, c, r, rooms1[r].content, rooms1[r].users, NoCursor)}
        /\ lastEvent' = Event(JOIN_ROOM, c, r, NoText)
        /\ joined' = [joined EXCEPT ![r] = @ \cup {c}]
        /\ UNCHANGED <<status, lastChange>>

\* Mutant of JoinRoom: the fileId of the payload is assigned to the room on every join.
JoinRoomSetsFile(c, r, f, n) ==
    LET user == NewUser(c, n)
        rooms1 == IF r \in DOMAIN rooms THEN rooms ELSE MapSet(rooms, r, NewRoom(r, f))
        users1 == MapSet(rooms1[r].users, c, user)
        sio1 == [sio EXCEPT ![r] = @ \cup {c}]
    IN  /\ status[c] = "connected"
        /\ currentRoomId' = [currentRoomId EXCEPT ![c] = r]
        /\ currentUser' = [currentUser EXCEPT ![c] = user]
        /\ rooms' = [rooms1 EXCEPT ![r].users = users1, ![r].fileId = f]
        /\ sio' = sio1
        /\ out' = {Msg(d, USER_JOINED, c, r, NoText, users1, NoCursor) : d \in BroadcastTo(sio1, c, r)}
                  \cup {Msg(c, SYNC_RESPONSE, c, r, rooms1[r].content, users1, NoCursor)}
        /\ lastEvent' = Event(JOIN_ROOM, c, r, NoText)
        /\ joined' = [joined EXCEPT ![r] = @ \cup {c}]
        /\ UNCHANGED <<status, lastChange>>

\* socket.on(JOIN_ROOM)
JoinRoom(c, r, f, n) ==
    LET user == NewUser(c, n)
        rooms1 == IF r \in DOMAIN rooms THEN rooms ELSE MapSet(rooms, r, NewRoom(r, f))
        users1 == MapSet(rooms1[r].users, c, user)
        sio1 == [sio EXCEPT ![r] = @ \cup {c}]
    IN  /\ status[c] = "connected"
        /\ currentRoomId' = [currentRoomId EXCEPT ![c] = r]
        /\ currentUser' = [currentUser EXCEPT ![c] = user]
        /\ rooms' = [rooms1 EXCEPT ![r].users = users1]
        /\ sio' = sio1
        /\ out' = {Msg(d, USER_JOINED, c, r, NoText, users1, NoCursor) : d \in BroadcastTo(sio1, c, r)}
                  \cup {Msg(c, SYNC_RESPONSE, c, r, rooms1[r].content, users1, NoCursor)}
        /\ lastEvent' = Event(JOIN_ROOM, c, r, NoText)
        /\ joined' = [joined EXCEPT ![r] = @ \cup {c}]
        /\ UNCHANGED <<status, lastChange>>

\* Mutant of leaveRoom: the empty room is not cleaned up.
leaveRoomNoCleanup(c, r, s) ==
    LET users1 == MapDelete(rooms[r].users, c)
    IN  /\ IF r \in DOMAIN rooms
           THEN /\ out' = {Msg(d, USER_LEFT, c, r, NoText, users1, NoCursor) : d \in BroadcastTo(s, c, r)}
                /\ rooms' = [rooms EXCEPT ![r].users = users1]
           ELSE /\ out' = {}
                /\ rooms' = rooms
        /\ sio' = [s EXCEPT ![r] = @ \ {c}]
        /\ lastChange' = [x \in RoomIds |-> IF x \in DOMAIN rooms' THEN lastChange[x] ELSE NoText]

\* Mutant of leaveRoom: USER_LEFT carries the participant list as it was before
\* the leaver was deleted.
leaveRoomListBefore(c, r, s) ==
    LET users1 == MapDelete(rooms[r].users, c)
    IN  /\ IF r \in DOMAIN rooms
           THEN /\ out' = {Msg(d, USER_LEFT, c, r, NoText, rooms[r].users, NoCursor) : d \in BroadcastTo(s, c, r)}
                /\ rooms' = IF Cardinality(DOMAIN users1) = 0
                            THEN MapDelete(rooms, r)
                            ELSE [rooms EXCEPT ![r].users = users1]
           ELSE /\ out' = {}
                /\ rooms' = rooms
        /\ sio' = [s EXCEPT ![r] = @ \ {c}]
        /\ lastChange' = [x \in RoomIds |-> IF x \in DOMAIN rooms' THEN lastChange[x] ELSE NoText]

\* leaveRoom(socket, roomId, user), run against the adapter state s.
leaveRoom(c, r, s) ==
    LET users1 == MapDelete(rooms[r].users, c)
    IN  /\ IF r \in DOMAIN rooms
           THEN /\ out' = {Msg(d, USER_LEFT, c, r, NoText, users1, NoCursor) : d \in BroadcastTo(s, c, r)}
                /\ rooms' = IF Cardinality(DOMAIN users1) = 0
                            THEN MapDelete(rooms, r)
                            ELSE [rooms EXCEPT ![r].users = users1]
           ELSE /\ out' = {}
                /\ rooms' = rooms
        /\ sio' = [s EXCEPT ![r] = @ \ {c}]
        /\ lastChange' = [x \in RoomIds |-> IF x \in DOMAIN rooms' THEN lastChange[x] ELSE NoText]

\* socket.on(LEAVE_ROOM)
LeaveRoom(c) ==
    /\ status[c] = "connected"
    /\ IF InRoomGuard(c)
       THEN /\ leaveRoom(c, currentRoomId[c], sio)
            /\ joined' = [joined EXCEPT ![currentRoomId[c]] = @ \ {c}]
       ELSE /\ out' = {}
            /\ UNCHANGED <<rooms, sio, joined, lastChange>>
    /\ lastEvent' = Event(LEAVE_ROOM, c, currentRoomId[c], NoText)
    /\ UNCHANGED <<status, currentRoomId, currentUser>>

\* Mutant of CursorMove: the position is broadcast but not assigned to
\* currentUser.cursor.
CursorMoveNoStore(c, cur) ==
    LET r == currentRoomId[c]
    IN  /\ status[c] = "connected"
        /\ out' = IF InRoomGuard(c)
                  THEN {Msg(d, CURSOR_MOVE, c, r, NoText, NoUsers, cur) : d \in BroadcastTo(sio, c, r)}
                  ELSE {}
        /\ lastEvent' = Event(CURSOR_MOVE, c, r, NoText)
        /\ UNCHANGED <<status, currentRoomId, currentUser, rooms, sio, joined, lastChange>>

\* socket.on(CURSOR_MOVE).  currentUser is the object stored in the users map of
\* the room it was created for, so the assignment to currentUser.cursor shows
\* there too while that entry exists.
CursorMove(c, cur) ==
    LET r == currentRoomId[c]
        user == [currentUser[c] EXCEPT !.cursor = cur]
    IN  /\ status[c] = "connected"
        /\ IF InRoomGuard(c)
           THEN /\ currentUser' = [currentUser EXCEPT ![c] = user]
                /\ rooms' = IF r \in DOMAIN rooms /\ c \in DOMAIN rooms[r].users
                            THEN [rooms EXCEPT ![r].users[c] = user]
                            ELSE rooms
                /\ out' = {Msg(d, CURSOR_MOVE, c, r, NoText, NoUsers, cur) : d \in BroadcastTo(sio, c, r)}
           ELSE /\ out' = {}
                /\ UNCHANGED <<currentUser, rooms>>
        /\ lastEvent' = Event(CURSOR_MOVE, c, r, NoText)
        /\ UNCHANGED <<status, currentRoomId, sio, joined, lastChange>>

\* Mutant of CodeChange: the text is relayed but room.content is not assigned.
CodeChangeNoStore(c, t) ==
    LET r == currentRoomId[c]
    IN  /\ status[c] = "connected"
        /\ IF r # NoRoom /\ r \in DOMAIN rooms
           THEN /\ rooms' = rooms
                /\ out' = {Msg(d, CODE_CHANGE, c, r, t, NoUsers, NoCursor) : d \in BroadcastTo(sio, c, r)}
                /\ lastChange' = [lastChange EXCEPT ![r] = t]
           ELSE /\ out' = {}
                /\ UNCHANGED <<rooms, lastChange>>
        /\ lastEvent' = Event(CODE_CHANGE, c, r, t)
        /\ UNCHANGED <<status, currentRoomId, currentUser, sio, joined>>

\* socket.on(CODE_CHANGE).  The serverTimestamp (Date.now()) of the payload is
\* not read by the relay and is left out of the message.
CodeChange(c, t) ==
    LET r == currentRoomId[c]
    IN  /\ status[c] = "connected"
        /\ IF r # NoRoom /\ r \in DOMAIN rooms
           THEN /\ rooms' = [rooms EXCEPT ![r].content = t]
                /\ out' = {Msg(d, CODE_CHANGE, c, r, t, NoUsers, NoCursor) : d \in BroadcastTo(sio, c, r)}
                /\ lastChange' = [lastChange EXCEPT ![r] = t]
           ELSE /\ out' = {}
                /\ UNCHANGED <<rooms, lastChange>>
        /\ lastEvent' = Event(CODE_CHANGE, c, r, t)
        /\ UNCHANGED <<status, currentRoomId, currentUser, sio, joined>>

\* Mutant of SyncRequest: the response is emitted to the whole room (io.to(roomId)).
SyncRequestToRoom(c) ==
    LET r == currentRoomId[c]
    IN  /\ status[c] = "connected"
        /\ out' = IF r # NoRoom /\ r \in DOMAIN rooms
                  THEN {Msg(d, SYNC_RESPONSE, c, r, rooms[r].content, rooms[r].users, NoCursor) : d \in sio[r] \cup {c}}
                  ELSE {}
        /\ lastEvent' = Event(SYNC_REQUEST, c, r, NoText)
        /\ UNCHANGED <<status, currentRoomId, currentUser, rooms, sio, joined, lastChange>>

\* socket.on(SYNC_REQUEST)
SyncRequest(c) ==
    LET r == currentRoomId[c]
    IN  /\ status[c] = "connected"
        /\ out' = IF r # NoRoom /\ r \in DOMAIN rooms
                  THEN {Msg(c, SYNC_RESPONSE, c, r, rooms[r].content, rooms[r].users, NoCursor)}
                  ELSE {}
        /\ lastEvent' = Event(SYNC_REQUEST, c, r, NoText)
        /\ UNCHANGED <<status, currentRoomId, currentUser, rooms, sio, joined, lastChange>>

\* Mutant of Disconnect: the disconnect handler does not call leaveRoom.
DisconnectNoLeave(c) ==
    LET sio0 == [r \in RoomIds |-> sio[r] \ {c}]
    IN  /\ status[c] = "connected"
        /\ status' = [status EXCEPT ![c] = "disconnected"]
        /\ out' = {}
        /\ sio' = sio0
        /\ UNCHANGED <<rooms, lastChange>>
        /\ joined' = [r \in RoomIds |-> joined[r] \ {c}]
        /\ lastEvent' = Event(DISCONNECT, c, currentRoomId[c], NoText)
        /\ currentRoomId' = [currentRoomId EXCEPT ![c] = NoRoom]
        /\ currentUser' = [currentUser EXCEPT ![c] = NoUser]

\* The transport closes the socket: socket.io takes it out of every adapter
\* room, then runs socket.on('disconnect').  No handler of the socket runs
\* afterwards, so its closure variables are dead and are cleared here.
Disconnect(c) ==
    LET sio0 == [r \in RoomIds |-> sio[r] \ {c}]
    IN  /\ status[c] = "connected"
        /\ status' = [status EXCEPT ![c] = "disconnected"]
        /\ IF InRoomGuard(c)
           THEN leaveRoom(c, currentRoomId[c], sio0)
           ELSE /\ out' = {}
                /\ sio' = sio0
                /\ UNCHANGED <<rooms, lastChange>>
        /\ joined' = [r \in RoomIds |-> joined[r] \ {c}]
        /\ lastEvent' = Event(DISCONNECT, c, currentRoomId[c], NoText)
        /\ currentRoomId' = [currentRoomId EXCEPT ![c] = NoRoom]
        /\ currentUser' = [currentUser EXCEPT ![c] = NoUser]

\* The relay seen handler by handler: each event is dispatched as soon as it is
\* issued and its messages are observed in out, so the transport queues stay empty.
Next ==
    \/ \E c \in Conns : Connect(c) /\ UNCHANGED <<netVars, appVars, userColor>>
    \/ \E c \in Conns, r \in RoomIds, f \in FileIds, n \in UserNames :
           JoinRoom(c, r, f, n) /\ UNCHANGED <<netVars, appVars, userColor>>
    \/ \E c \in Conns : LeaveRoom(c) /\ UNCHANGED <<netVars, appVars, userColor>>
    \/ \E c \in Conns, cur \in CursorInputs : CursorMove(c, cur) /\ UNCHANGED <<netVars, appVars, userColor>>
    \/ \E c \in Conns, t \in Texts : CodeChange(c, t) /\ UNCHANGED <<netVars, appVars, userColor>>
    \/ \E c \in Conns : SyncRequest(c) /\ UNCHANGED <<netVars, appVars, userColor>>
    \/ \E c \in Conns : Disconnect(c) /\ UNCHANGED <<netVars, appVars, userColor>>

Spec == Init /\ [][Next]_vars

\* ------------------------------------------------------------------ scenario
\* The two-connection session on one room: the texts the two clients send.
Hello == <<"h", "e", "l", "l", "o">>
HelloWorld == Hello \o <<" ", "w", "o", "r", "l", "d">>
ScenarioTexts == {Hello, HelloWorld}
ScenarioRoom == "doc1"
ScenarioFile == "f1"

\* The relay driven by clients that use one room id and send the two texts.
ScenarioNext ==
    \/ \E c \in Conns : Connect(c) /\ UNCHANGED <<netVars, appVars, userColor>>
    \/ \E c \in Conns, n \in UserNames :
           JoinRoom(c, ScenarioRoom, ScenarioFile, n) /\ UNCHANGED <<netVars, appVars, userColor>>
    \/ \E c \in Conns : LeaveRoom(c) /\ UNCHANGED <<netVars, appVars, userColor>>
    \/ \E c \in Conns, t \in ScenarioTexts : CodeChange(c, t) /\ UNCHANGED <<netVars, appVars, userColor>>
    \/ \E c \in Conns : SyncRequest(c) /\ UNCHANGED <<netVars, appVars, userColor>>
    \/ \E c \in Conns : Disconnect(c) /\ UNCHANGED <<netVars, appVars, userColor>>

ScenarioSpec == Init /\ [][ScenarioNext]_vars

\* The relay's state in the session: the room holds exactly members with text
\* (and is absent when members is empty), and live says which sockets are open.
ScenarioUsers(members) == [c \in members |-> NewUser(c, "user")]
ScenarioState(live, members, text) ==
    /\ status = [c \in Conns |-> IF c \in live THEN "connected" ELSE "disconnected"]
    /\ currentRoomId = [c \in Conns |-> IF c \in members THEN ScenarioRoom ELSE NoRoom]
    /\ currentUser = [c \in Conns |-> IF c \in members THEN NewUser(c, "user") ELSE NoUser]
    /\ rooms = IF members = {}
               THEN << >>
               ELSE [r \in {ScenarioRoom} |->
                        [id |-> ScenarioRoom, fileId |-> ScenarioFile,
                         users |-> ScenarioUsers(members), content |-> text]]
    /\ sio = [r \in RoomIds |-> IF r = ScenarioRoom THEN members ELSE {}]

\* ------------------------------------------------------------------ transport
\* An event a client emits on its socket.
ClientEvent(type, r, t, cur) == [type |-> type, room |-> r, text |-> t, cursor |-> cur]

\* The events the clients of a shared document emit: join of the document's
\* room, cursor moves and changes of the text.
ClientEvents ==
    {ClientEvent(JOIN_ROOM, ScenarioRoom, NoText, NoCursor)}
        \cup {ClientEvent(CURSOR_MOVE, NoRoom, NoText, cur) : cur \in CursorInputs}
        \cup {ClientEvent(CODE_CHANGE, NoRoom, Text(MaxText), NoCursor)}

\* Mutant of NextPacket: the packets of one socket are dispatched newest first.
NewestPacket(q) == Len(q)

\* The packet of a socket's queue that is taken next: a socket's packets are
\* dispatched, and received, in the order they were written.
NextPacket(q) == 1

\* The queue q without its i-th packet.
Without(q, i) == [j \in 1..(Len(q) - 1) |-> IF j < i THEN q[j] ELSE q[j + 1]]

\* emit: the messages of the handler that just ran are written to their
\* recipients' sockets (a handler emits at most one message per recipient).
Emitted(box, msgs) ==
    [d \in Conns |->
        LET ms == {m \in msgs : m.to = d}
        IN  IF ms = {} THEN box[d] ELSE Append(box[d], CHOOSE m \in ms : TRUE)]

\* socket.emit on the client: the event is written to the socket.  A client
\* joins the room of its document first and then sends its moves and changes.
Issue(c, e) ==
    /\ status[c] = "connected"
    /\ (e.type = JOIN_ROOM) = (issued[c] = << >>)
    /\ Len(issued[c]) <= MaxIssued
    /\ issued' = [issued EXCEPT ![c] = Append(@, e)]
    /\ inbox' = [inbox EXCEPT ![c] = Append(@, e)]
    /\ UNCHANGED <<status, currentRoomId, currentUser, rooms, sio, out, lastEvent, joined, lastChange>>
    /\ UNCHANGED <<outbox, delivered>>

\* The relay takes the next packet of socket c and runs the handler registered
\* for its event to completion; what the handler emits is written to the sockets.
Dispatch(c) ==
    /\ inbox[c] # << >>
    /\ LET i == NextPacket(inbox[c])
           e == inbox[c][i]
       IN  /\ \/ e.type = JOIN_ROOM /\ \E n \in UserNames : JoinRoom(c, e.room, ScenarioFile, n)
              \/ e.type = CURSOR_MOVE /\ CursorMove(c, e.cursor)
              \/ e.type = CODE_CHANGE /\ CodeChange(c, e.text)
           /\ inbox' = [inbox EXCEPT ![c] = Without(@, i)]
    /\ outbox' = Emitted(outbox, out')
    /\ UNCHANGED <<issued, delivered>>

\* The client of socket d receives the next message written to it.
Deliver(d) ==
    /\ outbox[d] # << >>
    /\ LET i == NextPacket(outbox[d])
       IN  /\ delivered' = [delivered EXCEPT ![d] = Append(@, outbox[d][i])]
           /\ outbox' = [outbox EXCEPT ![d] = Without(@, i)]
    /\ UNCHANGED <<status, currentRoomId, currentUser, rooms, sio, out, lastEvent, joined, lastChange>>
    /\ UNCHANGED <<issued, inbox>>

\* The socket closes: what was in flight on it in either direction is lost.
Close(c) ==
    /\ Disconnect(c)
    /\ inbox' = [inbox EXCEPT ![c] = << >>]
    /\ outbox' = [Emitted(outbox, out') EXCEPT ![c] = << >>]
    /\ UNCHANGED <<issued, delivered>>

TransportNext ==
    \/ \E c \in Conns : Connect(c) /\ UNCHANGED <<netVars, appVars, userColor>>
    \/ \E c \in Conns, e \in ClientEvents : Issue(c, e) /\ UNCHANGED <<appVars, userColor>>
    \/ \E c \in Conns : Dispatch(c) /\ UNCHANGED <<appVars, userColor>>
    \/ \E d \in Conns : Deliver(d) /\ UNCHANGED <<appVars, userColor>>
    \/ \E c \in Conns : Close(c) /\ UNCHANGED <<appVars, userColor>>

TransportSpec == Init /\ [][TransportNext]_vars

\* ------------------------------------------------------------------ editor clients
\* EditorPane.handleChange: the editor's new text goes to the local store and
\* is emitted in full as CODE_CHANGE.
handleChange(c, t) ==
    /\ Issue(c, ClientEvent(CODE_CHANGE, NoRoom, t, NoCursor))
    /\ localText' = [localText EXCEPT ![c] = t]

\* The client receives its next message; EditorPane.handleRemoteChange puts the
\* text of a CODE_CHANGE of another user into the local store.  The client has
\* no listener for the other messages of the relay.
handleRemoteChange(d) ==
    /\ Deliver(d)
    /\ LET m == outbox[d][NextPacket(outbox[d])]
       IN  localText' = IF m.type = CODE_CHANGE /\ m.from # d
                        THEN [localText EXCEPT ![d] = m.content]
                        ELSE localText

\* Two editors on one document: each joins the document's room when the file
\* opens and then edits; the relay dispatches and the clients receive.
EditorsNext ==
    \/ \E c \in Conns : Connect(c) /\ UNCHANGED <<netVars, appVars, userColor>>
    \/ \E c \in Conns :
           Issue(c, ClientEvent(JOIN_ROOM, ScenarioRoom, NoText, NoCursor)) /\ UNCHANGED <<appVars, userColor>>
    \/ \E c \in Conns, t \in ScenarioTexts : handleChange(c, t) /\ UNCHANGED <<chatCall, deskVars, treeVars, userColor>>
    \/ \E c \in Conns : Dispatch(c) /\ UNCHANGED <<appVars, userColor>>
    \/ \E d \in Conns : handleRemoteChange(d) /\ UNCHANGED <<chatCall, deskVars, treeVars, userColor>>

EditorsSpec == Init /\ [][EditorsNext]_vars

\* ------------------------------------------------------------------ chat path
\* OllamaService.chat: the chunks it yields, or the error it throws.
OllamaChat(message, rt) ==
    LET Yields(l) == l # "malformed"
        breaks == {i \in DOMAIN rt.lines : rt.lines[i] = "broken"}
        read == IF breaks = {}
                THEN rt.lines
                ELSE SubSeq(rt.lines, 1, (CHOOSE i \in breaks : \A j \in breaks : i <= j) - 1)
        ls == SelectSeq(read, Yields)
    IN  [thrown |-> CASE rt.kind = "unreachable" -> FetchFailed
                      [] rt.kind = "status" -> ChatFailed \o <<rt.statusText>>
                      [] rt.kind = "nobody" -> NoResponseBody
                      [] breaks # {} -> Terminated
                      [] OTHER -> NoError,
         chunks |-> IF rt.kind = "stream"
                    THEN [i \in 1..Len(ls) |-> IF ls[i] = "token" THEN "tok" ELSE ""]
                    ELSE << >>]

\* router.post('/chat'): 400 without a message; the chunks as events, then
\* [DONE]; 500 with 'Chat failed' for whatever the service throws before the
\* first chunk.  Once a chunk is written the headers are sent: the catch
\* block's res.status(500).json() throws in its turn, nothing more is written
\* and the route never ends the response.
chatRoute(message, rt) ==
    IF message = ""
    THEN Response("400", MessageRequired, << >>)
    ELSE LET r == OllamaChat(message, rt)
         IN  CASE r.thrown = NoError -> Response("200", NoError, r.chunks \o <<Done>>)
               [] r.thrown # NoError /\ r.chunks = << >> -> Response("500", ChatFailed, << >>)
               [] OTHER -> Response("200", NoError, r.chunks)

\* sendMessage up to the fetch: a blank prompt returns at once.
sendMessage(p, up, rt) ==
    /\ chatCall.pc = "idle"
    /\ chatCall' = IF p = ""
                   THEN chatCall
                   ELSE [chatCall EXCEPT !.pc = "request", !.prompt = p, !.backendUp = up,
                                         !.runtime = rt, !.response = NoResponse,
                                         !.thrown = NoError, !.isLoading = TRUE,
                                         !.error = NoError, !.content = << >>]

\* fetch(BACKEND_URL/api/ai/chat): the backend answers, or the fetch rejects.
fetchChat ==
    /\ chatCall.pc = "request"
    /\ chatCall' = IF chatCall.backendUp
                   THEN [chatCall EXCEPT !.pc = "response",
                                         !.response = chatRoute(chatCall.prompt, chatCall.runtime)]
                   ELSE [chatCall EXCEPT !.pc = "catch", !.thrown = FailedToFetch]

\* A response body the route has ended: only the route's last write, [DONE],
\* is followed by res.end().
Ended(resp) == resp.events # << >> /\ resp.events[Len(resp.events)] = Done

\* sendMessage after the fetch: a response that is not ok throws; otherwise the
\* status becomes connected and the events with content are appended, [DONE]
\* being skipped.  On a body that is never ended the read loop waits for ever,
\* or reader.read() rejects when the backend's connection is torn down.
readResponse ==
    LET resp == chatCall.response
        HasContent(e) == e # "" /\ e # Done
        shown == [chatCall EXCEPT !.connectionStatus = "connected",
                                  !.content = SelectSeq(resp.events, HasContent)]
    IN  /\ chatCall.pc = "response"
        /\ CASE resp.status # "200" ->
                    chatCall' = [chatCall EXCEPT !.pc = "catch", !.thrown = HttpError(resp.status)]
              [] resp.status = "200" /\ Ended(resp) ->
                    chatCall' = [shown EXCEPT !.pc = "idle", !.isLoading = FALSE]
              [] OTHER ->
                    \/ chatCall' = [shown EXCEPT !.pc = "reading"]
                    \/ chatCall' = [shown EXCEPT !.pc = "catch", !.thrown = NetworkError]

\* The error sendMessage's catch block shows for a thrown message.
shownError(thrown) ==
    IF includes(thrown, "fetch") \/ includes(thrown, "network") \/ includes(thrown, "Failed")
    THEN CannotConnect
    ELSE thrown

\* sendMessage's catch and finally blocks.
catchError ==
    /\ chatCall.pc = "catch"
    /\ chatCall' = [chatCall EXCEPT
                       !.pc = "idle",
                       !.error = shownError(chatCall.thrown),
                       !.connectionStatus = IF shownError(chatCall.thrown) = CannotConnect
                                            THEN "disconnected" ELSE @,
                       !.content = << >>,
                       !.isLoading = FALSE]

\* The relay and the editors do not take part in a chat.
ChatFrame ==
    UNCHANGED <<status, currentRoomId, currentUser, rooms, sio, out, lastEvent, joined, lastChange,
                netVars, localText, deskVars, treeVars, userColor>>

ChatNext ==
    \/ \E p \in Prompts, up \in BOOLEAN, rt \in Runtimes : sendMessage(p, up, rt) /\ ChatFrame
    \/ fetchChat /\ ChatFrame
    \/ readResponse /\ ChatFrame
    \/ catchError /\ ChatFrame

ChatSpec == Init /\ [][ChatNext]_vars

\* ------------------------------------------------------------------ cursors
\* The positions the clients of one document report.
CursorPositions == {[line |-> 1, column |-> 2], [line |-> 3, column |-> 1]}

\* The relay driven by clients that share one room and move their cursors.
CursorNext ==
    \/ \E c \in Conns : Connect(c) /\ UNCHANGED <<netVars, appVars, userColor>>
    \/ \E c \in Conns, n \in UserNames :
           JoinRoom(c, ScenarioRoom, ScenarioFile, n) /\ UNCHANGED <<netVars, appVars, userColor>>
    \/ \E c \in Conns : LeaveRoom(c) /\ UNCHANGED <<netVars, appVars, userColor>>
    \/ \E c \in Conns, cur \in CursorPositions : CursorMove(c, cur) /\ UNCHANGED <<netVars, appVars, userColor>>
    \/ \E c \in Conns : SyncRequest(c) /\ UNCHANGED <<netVars, appVars, userColor>>
    \/ \E c \in Conns : Disconnect(c) /\ UNCHANGED <<netVars, appVars, userColor>>

CursorSpec == Init /\ [][CursorNext]_vars

\* ------------------------------------------------------------------ editor pane
\* The room id the pane joins for a file: its path.
FilePath(f) == IF f = "f1" THEN "doc1" ELSE "doc2"

\* The events of the join effect for file f: nothing without a fileId.
JoinEffect(f) ==
    IF f = "" THEN << >> ELSE <<ClientEvent(JOIN_ROOM, FilePath(f), NoText, NoCursor)>>

\* Mutant of EffectCleanup: the effect returns no cleanup.
NoEffectCleanup(p) == << >>

\* The events of the cleanup the pane's last join effect returned, if it returned one.
EffectCleanup(p) ==
    IF p.cleanup THEN <<ClientEvent(LEAVE_ROOM, NoRoom, NoText, NoCursor)>> ELSE << >>

\* socket.emit of the events es, in order, on client c's socket.
Emit(c, es) ==
    /\ issued' = [issued EXCEPT ![c] = @ \o es]
    /\ inbox' = [inbox EXCEPT ![c] = @ \o es]

\* EditorArea renders the EditorPane for another active file f: the effect's
\* dependencies changed (or the pane mounts), so the previous cleanup runs and
\* then the effect.  Under React.StrictMode a mounting pane runs its effect,
\* the cleanup and the effect again.
ShowFile(c, f, strict) ==
    LET mounting == pane[c].fileId = "none"
        again == IF mounting /\ strict /\ f # ""
                 THEN JoinEffect(f) \o EffectCleanup([fileId |-> f, cleanup |-> TRUE])
                 ELSE << >>
    IN  /\ f # pane[c].fileId
        /\ Len(issued[c]) <= MaxIssued
        /\ Emit(c, EffectCleanup(pane[c]) \o again \o JoinEffect(f))
        /\ pane' = [pane EXCEPT ![c] = [fileId |-> f, cleanup |-> f # ""]]

\* No file is active any more: the EditorPane unmounts and its cleanup runs.
HideFile(c) ==
    /\ pane[c].fileId # "none"
    /\ Len(issued[c]) <= MaxIssued
    /\ Emit(c, EffectCleanup(pane[c]))
    /\ pane' = [pane EXCEPT ![c] = [fileId |-> "none", cleanup |-> FALSE]]

\* The panes touch nothing of the relay, the chat or the editor text.
PaneFrame ==
    UNCHANGED <<status, currentRoomId, currentUser, rooms, sio, out, lastEvent, joined, lastChange,
                outbox, delivered, localText, chatCall, userColor, storeVars, agentVars, treeVars>>

PaneNext ==
    \/ \E c \in Conns, f \in FileIds, strict \in BOOLEAN : ShowFile(c, f, strict) /\ PaneFrame
    \/ \E c \in Conns : HideFile(c) /\ PaneFrame

PaneSpec == Init /\ [][PaneNext]_vars

\* ------------------------------------------------------------------ editor store
\* An OpenFile of the store, by the fields the store's actions read or write.
OpenFile(id, content, isDirty) == [id |-> id, content |-> content, isDirty |-> isDirty]
OpenIds(files) == {files[i].id : i \in DOMAIN files}

\* files.findIndex(f => f.id === id), counted from 0; -1 when there is none.
findIndex(files, id) ==
    IF id \in OpenIds(files)
    THEN (CHOOSE i \in DOMAIN files : files[i].id = id /\ \A j \in 1..(i - 1) : files[j].id # id) - 1
    ELSE -1

\* The record of a call of the store action name for fileId.
Called(name, fileId) ==
    storeCall' = [name |-> name, fileId |-> fileId,
                  index |-> findIndex(openFiles, fileId), active |-> activeFileId]

\* Mutant of closeFile: closing the active file activates the first tab.
closeFileActivatesFirst(fileId) ==
    LET newOpenFiles == SelectSeq(openFiles, LAMBDA f : f.id # fileId)
    IN  /\ openFiles' = newOpenFiles
        /\ activeFileId' = IF activeFileId = fileId
                           THEN IF Len(newOpenFiles) > 0 THEN newOpenFiles[1].id ELSE NoFile
                           ELSE activeFileId
        /\ Called("closeFile", fileId)

\* openFile: an open file is only activated; a new one is appended, clean, and
\* activated.
openFile(fileId, content) ==
    /\ openFiles' = IF fileId \in OpenIds(openFiles)
                    THEN openFiles
                    ELSE Append(openFiles, OpenFile(fileId, content, FALSE))
    /\ activeFileId' = fileId
    /\ Called("openFile", fileId)

\* closeFile: the file is filtered out; when it was the active one, the file at
\* Math.max(0, closedIndex - 1) of the remaining ones becomes active, or none.
closeFile(fileId) ==
    LET newOpenFiles == SelectSeq(openFiles, LAMBDA f : f.id # fileId)
        closedIndex == findIndex(openFiles, fileId)
        at == IF closedIndex - 1 > 0 THEN closedIndex - 1 ELSE 0
    IN  /\ openFiles' = newOpenFiles
        /\ activeFileId' = IF activeFileId = fileId
                           THEN IF Len(newOpenFiles) > 0 THEN newOpenFiles[at + 1].id ELSE NoFile
                           ELSE activeFileId
        /\ Called("closeFile", fileId)

\* setActiveFile, called by the tab of an open file.
setActiveFile(fileId) ==
    /\ fileId \in OpenIds(openFiles)
    /\ activeFileId' = fileId
    /\ Called("setActiveFile", fileId)
    /\ UNCHANGED openFiles

\* updateFileContent: the file gets the content and becomes dirty.
updateFileContent(fileId, content) ==
    /\ openFiles' = [i \in DOMAIN openFiles |->
                        IF openFiles[i].id = fileId
                        THEN OpenFile(fileId, content, TRUE)
                        ELSE openFiles[i]]
    /\ Called("updateFileContent", fileId)
    /\ UNCHANGED activeFileId

\* markFileSaved: the file becomes clean.
markFileSaved(fileId) ==
    /\ openFiles' = [i \in DOMAIN openFiles |->
                        IF openFiles[i].id = fileId
                        THEN [openFiles[i] EXCEPT !.isDirty = FALSE]
                        ELSE openFiles[i]]
    /\ Called("markFileSaved", fileId)
    /\ UNCHANGED activeFileId

\* The tabs touch nothing but the store.
TabsFrame ==
    UNCHANGED <<status, currentRoomId, currentUser, rooms, sio, out, lastEvent, joined, lastChange,
                netVars, localText, chatCall, pane, userColor, treeVars, agentVars, disk, writes>>

\* TreeItem opens a file with the content read from disk; EditorTab activates
\* and closes.
TabsNext ==
    \/ \E f \in TabFiles : openFile(f, disk[f]) /\ TabsFrame
    \/ \E f \in TabFiles : closeFile(f) /\ TabsFrame
    \/ \E f \in TabFiles : setActiveFile(f) /\ TabsFrame

TabsSpec == Init /\ [][TabsNext]_vars

\* ------------------------------------------------------------------ saving
\* EditorPane.saveFile up to its await: the pane's file, when it is open and
\* dirty, is handed to writeFile with its present content.
saveFile ==
    /\ activeFileId # NoFile
    /\ Len(writes) < MaxSaves
    /\ LET i == findIndex(openFiles, activeFileId) + 1
       IN  writes' = IF i > 0 /\ openFiles[i].isDirty
                     THEN Append(writes, [fileId |-> activeFileId,
                                          content |-> openFiles[i].content, written |-> FALSE])
                     ELSE writes
    /\ UNCHANGED <<openFiles, activeFileId, storeCall, disk>>

\* fs:writeFile in the main process: the content handed over reaches the disk.
writeFile(i) ==
    /\ i \in DOMAIN writes
    /\ ~writes[i].written
    /\ disk' = [disk EXCEPT ![writes[i].fileId] = writes[i].content]
    /\ writes' = [writes EXCEPT ![i].written = TRUE]
    /\ UNCHANGED <<openFiles, activeFileId, storeCall>>

\* saveFile after its await: markFileSaved for the file the call was made for.
saveFileResumed(i) ==
    /\ i \in DOMAIN writes
    /\ writes[i].written
    /\ markFileSaved(writes[i].fileId)
    /\ writes' = [j \in 1..(Len(writes) - 1) |-> IF j < i THEN writes[j] ELSE writes[j + 1]]
    /\ UNCHANGED disk

\* Saving touches the store and the disk only.
SaveFrame ==
    UNCHANGED <<status, currentRoomId, currentUser, rooms, sio, out, lastEvent, joined, lastChange,
                netVars, localText, chatCall, pane, userColor, treeVars, agentVars>>

\* The pane shows the active file: handleChange and handleRemoteChange update
\* it, Ctrl+S saves it.
SaveNext ==
    \/ \E f \in FileIds : openFile(f, disk[f]) /\ UNCHANGED <<disk, writes>> /\ SaveFrame
    \/ \E f \in FileIds : closeFile(f) /\ UNCHANGED <<disk, writes>> /\ SaveFrame
    \/ \E t \in Texts : /\ activeFileId # NoFile
                        /\ updateFileContent(activeFileId, t)
                        /\ UNCHANGED <<disk, writes>> /\ SaveFrame
    \/ saveFile /\ SaveFrame
    \/ \E i \in 1..MaxSaves : writeFile(i) /\ SaveFrame
    \/ \E i \in 1..MaxSaves : saveFileResumed(i) /\ SaveFrame

SaveSpec == Init /\ [][SaveNext]_vars

\* ------------------------------------------------------------------ AI operations
\* The desktop application runs in Electron.
isElectron == TRUE

\* A FileOperation, by the fields the hook reads or writes.
FileOperation(id, type, decided) == [id |-> id, type |-> type, status |-> decided]
OperationTypes == {"create", "modify", "delete"}

\* prev.map(op => selected ? {...op, status: decided} : op), selected being
\* the ids of the operations the condition holds for.
WithStatus(selected, decided) ==
    [i \in DOMAIN pendingOperations |->
        IF pendingOperations[i].id \in selected
        THEN [pendingOperations[i] EXCEPT !.status = decided]
        ELSE pendingOperations[i]]

\* The file-system or editor call applyOperation makes for an operation.
Effect(operation) ==
    IF operation.type \in {"create", "modify"}
    THEN IF isElectron THEN <<"createFile">> ELSE <<"openFile">>
    ELSE IF isElectron THEN <<"deleteItem">> ELSE << >>

\* processAIResponse: a parsed operation is appended as pending.
processAIResponse(type) ==
    /\ Len(pendingOperations) < MaxOperations
    /\ pendingOperations' =
           Append(pendingOperations, FileOperation(Len(pendingOperations) + 1, type, "pending"))
    /\ UNCHANGED <<applying, applyAll, effects, returned>>

\* applyOperation up to its await: an operation that is not in the list or is
\* not pending returns false; otherwise the file-system call is made.
applyOperation(operationId) ==
    /\ applying[operationId] < MaxCalls
    /\ IF operationId \in DOMAIN pendingOperations
          /\ pendingOperations[operationId].status = "pending"
       THEN /\ applying' = [applying EXCEPT ![operationId] = @ + 1]
            /\ UNCHANGED returned
       ELSE /\ returned' = [id |-> operationId, value |-> FALSE]
            /\ UNCHANGED applying
    /\ UNCHANGED <<pendingOperations, applyAll, effects>>

\* applyOperation after its await: the call succeeded, the operation is marked
\* applied and true is returned; or it threw, and false is returned.
applyOperationResumed(operationId, ok) ==
    /\ applying[operationId] > 0
    /\ applying' = [applying EXCEPT ![operationId] = @ - 1]
    /\ returned' = [id |-> operationId, value |-> ok]
    /\ IF ok
       THEN /\ effects' = [effects EXCEPT
                              ![operationId] = @ \o Effect(pendingOperations[operationId])]
            /\ pendingOperations' = WithStatus({operationId}, "applied")
       ELSE UNCHANGED <<effects, pendingOperations>>
    /\ UNCHANGED applyAll

\* rejectOperation: the operation is marked rejected.
rejectOperation(operationId) ==
    /\ operationId \in DOMAIN pendingOperations
    /\ pendingOperations' = WithStatus({operationId}, "rejected")
    /\ UNCHANGED <<applying, applyAll, effects, returned>>

\* rejectAllOperations: every pending operation is marked rejected.
rejectAllOperations ==
    /\ pendingOperations' = WithStatus({pendingOperations[i].id : i \in {j \in DOMAIN pendingOperations :
                                                        pendingOperations[j].status = "pending"}},
                                     "rejected")
    /\ UNCHANGED <<applying, applyAll, effects, returned>>

\* applyAllOperations: the pending operations of the render it was created in.
applyAllOperations ==
    /\ applyAll = << >>
    /\ applyAll' = SelectSeq([i \in DOMAIN pendingOperations |-> i],
                             LAMBDA i : pendingOperations[i].status = "pending")
    /\ UNCHANGED <<pendingOperations, applying, effects, returned>>

\* One turn of applyAllOperations' loop: applyOperation of the same render,
\* which still sees the operation as pending, is called for the next one.
applyAllNext ==
    /\ applyAll # << >>
    /\ applying[Head(applyAll)] < MaxCalls
    /\ applying' = [applying EXCEPT ![Head(applyAll)] = @ + 1]
    /\ applyAll' = Tail(applyAll)
    /\ UNCHANGED <<pendingOperations, effects, returned>>

\* The hook touches its own state only.
AgentFrame ==
    UNCHANGED <<status, currentRoomId, currentUser, rooms, sio, out, lastEvent, joined, lastChange,
                netVars, localText, chatCall, pane, storeVars, treeVars, userColor>>

AgentNext ==
    \/ \E type \in OperationTypes : processAIResponse(type) /\ AgentFrame
    \/ \E o \in OperationIds : applyOperation(o) /\ AgentFrame
    \/ \E o \in OperationIds, ok \in BOOLEAN : applyOperationResumed(o, ok) /\ AgentFrame
    \/ \E o \in OperationIds : rejectOperation(o) /\ AgentFrame
    \/ rejectAllOperations /\ AgentFrame
    \/ applyAllOperations /\ AgentFrame
    \/ applyAllNext /\ AgentFrame

AgentSpec == Init /\ [][AgentNext]_vars

\* ------------------------------------------------------------------ file tree
\* The directory names buildFileTree does not descend into.
ignoredDirs == <<"node_modules", ".git", "dist", "dist-electron", ".vite", "__pycache__">>

\* The entry names of the project, in the order of String.localeCompare.
NameOrder == <<"dist", "main", "src">>
Names == {NameOrder[i] : i \in DOMAIN NameOrder}
SubNames == {"dist", "main"}
localeCompare(a, b) ==
    LET at(n) == CHOOSE i \in DOMAIN NameOrder : NameOrder[i] = n
    IN  IF at(a) < at(b) THEN -1 ELSE IF at(a) > at(b) THEN 1 ELSE 0

\* A Dirent of readdir(dirPath, {withFileTypes: true}), with the entries of the
\* directory it names.
Dirent(name, isDirectory, entries) == [name |-> name, isDirectory |-> isDirectory, entries |-> entries]

\* What readdir can return for a directory holding entries of S: any of them, in
\* any order, no name twice.
Listings(S) ==
    {s \in UNION {[1..n -> S] : n \in 0..Cardinality({e.name : e \in S})} :
        \A i, j \in DOMAIN s : s[i].name = s[j].name => i = j}

\* The directories of the project, three levels deep.
DeepDirs == Listings({Dirent("main", FALSE, << >>)})
SubDirs ==
    Listings({Dirent(n, FALSE, << >>) : n \in SubNames}
                 \cup {Dirent(n, TRUE, es) : n \in SubNames, es \in DeepDirs})
ProjectRoots ==
    Listings({Dirent(n, FALSE, << >>) : n \in Names}
                 \cup {Dirent(n, TRUE, es) : n \in Names, es \in SubDirs})

\* Mutant of compare: by name only.
compareByName(a, b) == localeCompare(a.name, b.name)

\* The comparator of nodes.sort: folders first, then by name.
compare(a, b) ==
    IF a.type = "folder" /\ b.type = "file" THEN -1
    ELSE IF a.type = "file" /\ b.type = "folder" THEN 1
    ELSE localeCompare(a.name, b.name)

\* Array.prototype.sort with compare: a stable sort.
RECURSIVE sort(_)
sort(nodes) ==
    IF nodes = << >>
    THEN << >>
    ELSE LET x == nodes[Len(nodes)]
             t == sort(SubSeq(nodes, 1, Len(nodes) - 1))
             k == Cardinality({i \in DOMAIN t : compare(t[i], x) <= 0})
         IN  SubSeq(t, 1, k) \o <<x>> \o SubSeq(t, k + 1, Len(t))

\* buildFileTree(dirPath, idPrefix), entries being what readdir(dirPath)
\* returns: a folder node with its children for every directory that is not
\* ignored, a file node for everything else, sorted.
RECURSIVE buildFileTree(_, _, _)
buildFileTree(entries, dirPath, idPrefix) ==
    LET pushed(i) == ~entries[i].isDirectory \/ ~includes(ignoredDirs, entries[i].name)
        kept == SelectSeq([i \in DOMAIN entries |-> i], pushed)
        node(i) ==
            LET entry == entries[i]
                fullPath == dirPath \o <<entry.name>>
                id == idPrefix \o <<i - 1>>
            IN  IF entry.isDirectory
                THEN [id |-> id, name |-> entry.name, path |-> fullPath, type |-> "folder",
                      children |-> buildFileTree(entry.entries, fullPath, id)]
                ELSE [id |-> id, name |-> entry.name, path |-> fullPath, type |-> "file"]
    IN  sort([k \in DOMAIN kept |-> node(kept[k])])

\* GET /tree: the listing of the project directory.
GetTree ==
    /\ tree' = buildFileTree(projectRoot, << >>, << >>)
    /\ UNCHANGED projectRoot

\* The backend lists a project directory of any content.
TreeInit ==
    /\ InitState
    /\ projectRoot \in ProjectRoots
    /\ tree = NoTree

TreeNext ==
    GetTree /\ UNCHANGED <<status, currentRoomId, currentUser, rooms, sio, out, lastEvent, joined,
                           lastChange, netVars, localText, chatCall, deskVars, userColor>>

TreeSpec == TreeInit /\ [][TreeNext]_vars

\* ------------------------------------------------------------------ colors
\* The palette of generateColor.
colors ==
    <<"#FF6B6B", "#4ECDC4", "#45B7D1", "#96E6A1",
      "#DDA0DD", "#F7DC6F", "#BB8FCE", "#85C1E9",
      "#F8B500", "#00CED1", "#FF69B4", "#90EE90">>

\* Mutant of generateColor: a color computed from the draw, not taken from the palette.
generateColorComputed(k) == IF k = 0 THEN "#000000" ELSE "#FFFFFF"

\* generateColor() when Math.random() returns k / RandomSteps:
\* colors[Math.floor(random * colors.length)], the sequence counted from 1.
generateColor(k) == colors[(k * Len(colors)) \div RandomSteps + 1]

\* The color fields of the user objects the room map holds after a handler;
\* the user object that c's join with draw k created for room r has a fresh color.
ColorsAfter(joiner, r, k) ==
    [x \in RoomIds |->
        [d \in (IF x \in DOMAIN rooms' THEN DOMAIN rooms'[x].users ELSE {}) |->
            IF x = r /\ d = joiner THEN generateColor(k) ELSE userColor[x][d]]]

\* The relay with the participants' colors: one room, joins, leaves, disconnects.
ColorNext ==
    \/ \E c \in Conns : Connect(c) /\ UNCHANGED <<netVars, appVars, userColor>>
    \/ \E c \in Conns, n \in UserNames, k \in 0..(RandomSteps - 1) :
           /\ JoinRoom(c, ScenarioRoom, ScenarioFile, n)
           /\ userColor' = ColorsAfter(c, ScenarioRoom, k)
           /\ UNCHANGED <<netVars, appVars>>
    \/ \E c \in Conns :
           /\ LeaveRoom(c)
           /\ userColor' = ColorsAfter("null", NoRoom, 0)
           /\ UNCHANGED <<netVars, appVars>>
    \/ \E c \in Conns :
           /\ Disconnect(c)
           /\ userColor' = ColorsAfter("null", NoRoom, 0)
           /\ UNCHANGED <<netVars, appVars>>

ColorSpec == Init /\ [][ColorNext]_vars

\* ------------------------------------------------------------------ observations
\* The rooms whose participant map lists connection c.
RoomsListing(c) == {r \in DOMAIN rooms : c \in DOMAIN rooms[r].users}

\* Room r lists connection c and the relay handles c's events for r.
InRoom(c, r) == currentRoomId[c] = r /\ r \in RoomsListing(c)

\* The messages of the last handler, by kind.
Broadcasts == {m \in out : m.type \in {USER_JOINED, USER_LEFT, CURSOR_MOVE, CODE_CHANGE}}
Syncs == {m \in out : m.type = SYNC_RESPONSE}
ListCarriers == {m \in out : m.type \in {SYNC_RESPONSE, USER_JOINED, USER_LEFT}}

\* Connection c joined some room and has not left it or disconnected since.
CurrentlyJoined(c) == \E r \in RoomIds : c \in joined[r]

\* The cursor moves and changes connection c issued, in the order it issued them.
IssuedBy(c) ==
    LET Relayed(e) == e.type \in {CURSOR_MOVE, CODE_CHANGE}
        es == SelectSeq(issued[c], Relayed)
    IN  [i \in 1..Len(es) |-> [type |-> es[i].type, text |-> es[i].text, cursor |-> es[i].cursor]]

\* The cursor moves and changes of connection c that connection d has received,
\* in the order it received them.
ReceivedFrom(d, c) ==
    LET Relayed(m) == m.from = c /\ m.type \in {CURSOR_MOVE, CODE_CHANGE}
        ms == SelectSeq(delivered[d], Relayed)
    IN  [i \in 1..Len(ms) |-> [type |-> ms[i].type, text |-> ms[i].content, cursor |-> ms[i].cursor]]

\* Sequence a is sequence b with some of its elements left out.
RECURSIVE IsSubsequence(_, _)
IsSubsequence(a, b) ==
    IF a = << >> THEN TRUE
    ELSE IF b = << >> THEN FALSE
    ELSE IF Head(a) = Head(b) THEN IsSubsequence(Tail(a), Tail(b))
    ELSE IsSubsequence(a, Tail(b))

\* The nodes of a listing at any depth, and its levels (one per listed directory).
RECURSIVE AllNodes(_)
AllNodes(nodes) ==
    UNION {{nodes[i]} \cup (IF nodes[i].type = "folder" THEN AllNodes(nodes[i].children) ELSE {}) :
              i \in DOMAIN nodes}
RECURSIVE Levels(_)
Levels(nodes) ==
    {nodes} \cup UNION {IF nodes[i].type = "folder" THEN Levels(nodes[i].children) ELSE {} :
                           i \in DOMAIN nodes}

\* The entries of a directory at any depth, with their paths.
RECURSIVE FsEntries(_, _)
FsEntries(entries, dirPath) ==
    UNION {{[path |-> dirPath \o <<entries[i].name>>, isDirectory |-> entries[i].isDirectory]}
               \cup FsEntries(entries[i].entries, dirPath \o <<entries[i].name>>) :
              i \in DOMAIN entries}

\* The path lies beneath a directory with an ignored name.
BeneathIgnored(path) == \E k \in 1..(Len(path) - 1) : includes(ignoredDirs, path[k])

\* ------------------------------------------------------------------ claims
\* C1: in every reachable state a room is in the room map exactly when its
\* participant set is non-empty: every room of the map has a participant, the
\* map holds rooms only under ids that were joined, and no socket is joined to
\* a room id the map does not hold.
RoomExistsIffNonEmpty ==
    /\ DOMAIN rooms \subseteq RoomIds
    /\ \A r \in DOMAIN rooms : DOMAIN rooms[r].users # {}
    /\ \A r \in RoomIds \ DOMAIN rooms : sio[r] = {}

\* C1 witness: a disconnect just emptied a room, which is gone while another room lives on.
RoomDeletedWhenEmptied ==
    /\ lastEvent.type \in {LEAVE_ROOM, DISCONNECT}
    /\ lastEvent.room \in RoomIds
    /\ lastEvent.room \notin DOMAIN rooms
    /\ DOMAIN rooms # {}

\* C2: every participant list the relay reports for a room (in sync,
\* participantJoined and participantLeft payloads) is exactly the set of
\* connections that joined the room and have not left it or disconnected since.
ReportedListIsJoinedSet ==
    \A m \in ListCarriers : DOMAIN m.users = joined[m.room]

\* C3: each connection id is in the participant set of at most one room.
AtMostOneRoomPerConnection ==
    \A c \in Conns : Cardinality(RoomsListing(c)) <= 1

\* C4: once a connection's disconnect has been processed, the connection is in
\* no room's participant set.
DisconnectedInNoRoom ==
    \A c \in Conns : status[c] = "disconnected" => RoomsListing(c) = {}

\* C5: after the last participant of a room has left or disconnected, the room
\* is gone and the next join with that room id gets a sync with the empty text.
JoinAfterLastLeftSyncsEmpty ==
    [][\A r \in RoomIds :
          (joined[r] = {} /\ lastEvent'.type = JOIN_ROOM /\ lastEvent'.room = r)
              => \A m \in out' : m.type = SYNC_RESPONSE => m.content = Text(0)]_vars

\* C6: after a contentChange with text T for a room, a syncRequest by a
\* participant of that room (a connection the room lists and whose events the
\* relay handles for that room) is answered with exactly T, whatever joins,
\* leaves, cursor moves and disconnects happened since, until the next
\* contentChange for the room.
SyncReturnsLastChange ==
    \A c \in Conns, r \in RoomIds :
        (lastEvent.type = SYNC_REQUEST /\ lastEvent.conn = c /\ InRoom(c, r) /\ lastChange[r] # NoText)
            => /\ Syncs # {}
               /\ \A m \in Syncs : m.content = lastChange[r]

\* C6 witness: a syncRequest of a participant was answered with the non-empty
\* text of an earlier contentChange while another connection shares the room.
SyncAnsweredWithChange ==
    /\ lastEvent.type = SYNC_REQUEST
    /\ InRoom(lastEvent.conn, lastEvent.room)
    /\ lastChange[lastEvent.room] = Text(MaxText)
    /\ \E m \in Syncs : m.content = Text(MaxText)
    /\ \E d \in Conns : d # lastEvent.conn /\ InRoom(d, lastEvent.room)

\* C7: last write wins: right after a contentChange with text B by a participant
\* of a room, the stored text of the room is B whatever it was before, and every
\* sync (to a syncRequest or to a late join) reports the stored text of its room.
LastWriteWins ==
    /\ \A c \in Conns, r \in RoomIds :
           (lastEvent.type = CODE_CHANGE /\ lastEvent.conn = c /\ InRoom(c, r))
               => rooms[r].content = lastEvent.text
    /\ \A m \in Syncs : m.room \in DOMAIN rooms /\ m.content = rooms[m.room].content

\* C7 witness: a participant's contentChange with the longest text was stored
\* and relayed to another participant of the room.
ChangeStoredAndRelayed ==
    /\ lastEvent.type = CODE_CHANGE
    /\ lastEvent.text = Text(MaxText)
    /\ InRoom(lastEvent.conn, lastEvent.room)
    /\ rooms[lastEvent.room].content = Text(MaxText)
    /\ \E m \in out : m.type = CODE_CHANGE /\ m.content = Text(MaxText)

\* C8: no connection receives a contentChange or cursorMove message that carries
\* its own id as the sender.
NoEchoToSender ==
    \A m \in out : m.type \in {CODE_CHANGE, CURSOR_MOVE} => m.to # m.from

\* C8 witness: a contentChange was relayed to another participant while the
\* sender itself is joined to the room the broadcast went to.
ChangeRelayedFromMember ==
    \E m \in out : m.type = CODE_CHANGE /\ m.from \in sio[m.room] /\ m.to \in sio[m.room]

\* C9: the participantJoined, participantLeft, cursorMove and contentChange
\* messages of an event of connection C for room R go to every other live
\* connection recorded as a participant of R and to nobody else, and so to no
\* connection that is in another room.
BroadcastScope ==
    lastEvent.type \in {JOIN_ROOM, LEAVE_ROOM, CURSOR_MOVE, CODE_CHANGE, DISCONNECT} =>
        /\ \A m \in Broadcasts : m.from = lastEvent.conn /\ m.room = lastEvent.room
        /\ {m.to : m \in Broadcasts} =
               IF lastEvent.room \in DOMAIN rooms
               THEN {d \in DOMAIN rooms[lastEvent.room].users :
                        d # lastEvent.conn /\ status[d] = "connected"}
               ELSE {}
        /\ \A m \in Broadcasts : RoomsListing(m.to) \subseteq {m.room}

\* C10 as stated: every join and every syncRequest produces exactly one sync,
\* addressed to the requester, and nothing but sync reaches the requester.
EveryRequestSyncsOnce ==
    /\ lastEvent.type \in {JOIN_ROOM, SYNC_REQUEST} =>
           Cardinality(Syncs) = 1 /\ \A m \in Syncs : m.to = lastEvent.conn
    /\ \A m \in out : m.to = lastEvent.conn => m.type = SYNC_RESPONSE

\* C10 amended: a join produces exactly one sync; a syncRequest produces exactly
\* one sync when the room of the requester's latest join exists and none
\* otherwise; every sync is addressed to the requester alone, only join and
\* syncRequest produce one, and nothing but sync reaches the triggering connection.
SyncToRequesterOnly ==
    /\ lastEvent.type = JOIN_ROOM => Cardinality(Syncs) = 1
    /\ lastEvent.type = SYNC_REQUEST =>
           Cardinality(Syncs) = IF lastEvent.room \in DOMAIN rooms THEN 1 ELSE 0
    /\ lastEvent.type \notin {JOIN_ROOM, SYNC_REQUEST} => Syncs = {}
    /\ \A m \in Syncs : m.to = lastEvent.conn
    /\ \A m \in out : m.to = lastEvent.conn => m.type = SYNC_RESPONSE

\* C10 witness: a syncRequest was answered while another connection is joined
\* to the same room.
SyncAnsweredInSharedRoom ==
    /\ lastEvent.type = SYNC_REQUEST
    /\ Syncs # {}
    /\ \E d \in sio[lastEvent.room] : d # lastEvent.conn

\* C11: a contentChange from a connection that is in no room (it never joined,
\* or it left every room it joined) changes no room's stored text, creates or
\* deletes no room, and is broadcast to nobody.
ChangeOutsideRoomIsNoOp ==
    [][(lastEvent'.type = CODE_CHANGE /\ ~CurrentlyJoined(lastEvent'.conn))
          => /\ out' = {}
             /\ DOMAIN rooms' = DOMAIN rooms
             /\ \A r \in DOMAIN rooms : rooms'[r].content = rooms[r].content]_vars

\* C12: a cursorMove from a connection that is in no room (it never joined, or
\* it left every room it joined) produces no cursorMove message to any connection.
CursorOutsideRoomIsNoOp ==
    (lastEvent.type = CURSOR_MOVE /\ ~CurrentlyJoined(lastEvent.conn))
        => \A m \in out : m.type # CURSOR_MOVE

\* C13: a syncRequest from a connection that is in no room (it never joined, or
\* it left every room it joined) gets no sync response, so no room's text or
\* participant list is sent to it.
SyncOutsideRoomIgnored ==
    (lastEvent.type = SYNC_REQUEST /\ ~CurrentlyJoined(lastEvent.conn))
        => Syncs = {}

\* C14: the two-connection session holds step by step.  A joins doc1 and gets
\* sync('', {A}); B joins, A gets participantJoined(B, {A,B}) and B gets
\* sync('', {A,B}); A's contentChange "hello" reaches only B and the room text
\* becomes "hello"; B's contentChange "hello world" reaches only A and the room
\* text becomes "hello world"; A's disconnect gives B participantLeft(A, {B});
\* B's disconnect deletes room doc1.
ScenarioHoldsStepByStep ==
    [][/\ (ScenarioState({"A", "B"}, {}, Text(0)) /\ lastEvent' = Event(JOIN_ROOM, "A", ScenarioRoom, NoText))
           => /\ ScenarioState({"A", "B"}, {"A"}, Text(0))'
              /\ out' = {Msg("A", SYNC_RESPONSE, "A", ScenarioRoom, Text(0), ScenarioUsers({"A"}), NoCursor)}
       /\ (ScenarioState({"A", "B"}, {"A"}, Text(0)) /\ lastEvent' = Event(JOIN_ROOM, "B", ScenarioRoom, NoText))
           => /\ ScenarioState({"A", "B"}, {"A", "B"}, Text(0))'
              /\ out' = {Msg("A", USER_JOINED, "B", ScenarioRoom, NoText, ScenarioUsers({"A", "B"}), NoCursor),
                         Msg("B", SYNC_RESPONSE, "B", ScenarioRoom, Text(0), ScenarioUsers({"A", "B"}), NoCursor)}
       /\ (ScenarioState({"A", "B"}, {"A", "B"}, Text(0)) /\ lastEvent' = Event(CODE_CHANGE, "A", ScenarioRoom, Hello))
           => /\ ScenarioState({"A", "B"}, {"A", "B"}, Hello)'
              /\ out' = {Msg("B", CODE_CHANGE, "A", ScenarioRoom, Hello, NoUsers, NoCursor)}
       /\ (ScenarioState({"A", "B"}, {"A", "B"}, Hello) /\ lastEvent' = Event(CODE_CHANGE, "B", ScenarioRoom, HelloWorld))
           => /\ ScenarioState({"A", "B"}, {"A", "B"}, HelloWorld)'
              /\ out' = {Msg("A", CODE_CHANGE, "B", ScenarioRoom, HelloWorld, NoUsers, NoCursor)}
       /\ (ScenarioState({"A", "B"}, {"A", "B"}, HelloWorld) /\ lastEvent' = Event(DISCONNECT, "A", ScenarioRoom, NoText))
           => /\ ScenarioState({"B"}, {"B"}, HelloWorld)'
              /\ out' = {Msg("B", USER_LEFT, "A", ScenarioRoom, NoText, ScenarioUsers({"B"}), NoCursor)}
       /\ (ScenarioState({"B"}, {"B"}, HelloWorld) /\ lastEvent' = Event(DISCONNECT, "B", ScenarioRoom, NoText))
           => /\ ScenarioState({}, {}, NoText)'
              /\ ScenarioRoom \notin DOMAIN rooms'
              /\ out' = {}]_vars

\* C14 witness: the session ran to A's disconnect: B is alone in doc1, whose
\* text is "hello world", and has just received participantLeft(A, {B}).
ScenarioReachedDeparture ==
    /\ ScenarioState({"B"}, {"B"}, HelloWorld)
    /\ lastEvent = Event(DISCONNECT, "A", ScenarioRoom, NoText)
    /\ out = {Msg("B", USER_LEFT, "A", ScenarioRoom, NoText, ScenarioUsers({"B"}), NoCursor)}
    /\ joined[ScenarioRoom] = {"B"}
    /\ lastChange[ScenarioRoom] = HelloWorld

\* C15: FIFO per sender: the cursor moves and changes of one connection that
\* another connection has received are, in the order received, the events the
\* sender issued in the order it issued them, with some left out; no receiver
\* has two events of one sender in reversed order.
FifoPerSender ==
    \A c \in Conns : \A d \in Conns \ {c} : IsSubsequence(ReceivedFrom(d, c), IssuedBy(c))

\* C15 witness: a connection has received two different events of one sender, a
\* cursor move and a change, and the sender has issued them in that order.
TwoEventsReceivedInOrder ==
    \E c \in Conns : \E d \in Conns \ {c} :
        /\ Len(ReceivedFrom(d, c)) >= 2
        /\ ReceivedFrom(d, c)[1].type # ReceivedFrom(d, c)[2].type
        /\ ReceivedFrom(d, c) = IssuedBy(c)

\* C16: on a join of connection C to room R, every other participant of R
\* receives one participantJoined that carries C and the room's full participant
\* list, which includes C; C alone receives a sync, which carries the room's
\* stored text (the text of the latest contentChange, or the empty text when the
\* room has had none) and that same participant list.
JoinNotifiesAndSyncs ==
    lastEvent.type = JOIN_ROOM =>
        LET c == lastEvent.conn
            r == lastEvent.room
            list == rooms[r].users
        IN  /\ c \in DOMAIN list /\ list[c] = currentUser[c]
            /\ \A d \in (DOMAIN list \cup joined[r]) \ {c} :
                   status[d] = "connected" =>
                       Msg(d, USER_JOINED, c, r, NoText, list, NoCursor) \in out
            /\ \A m \in out : m.type = USER_JOINED => m.from = c /\ m.users = list /\ m.to # c
            /\ Syncs = {Msg(c, SYNC_RESPONSE, c, r, rooms[r].content, list, NoCursor)}
            /\ rooms[r].content = IF lastChange[r] = NoText THEN Text(0) ELSE lastChange[r]

\* C16 witness: a connection joined a room that another participant shares and
\* whose text was changed before: the other one got participantJoined and the
\* joiner got the changed text.
JoinedSharedChangedRoom ==
    /\ lastEvent.type = JOIN_ROOM
    /\ \E m \in out : m.type = USER_JOINED /\ InRoom(m.to, lastEvent.room)
    /\ \E m \in Syncs : m.content = Text(MaxText) /\ Cardinality(DOMAIN m.users) = 2

\* C17: when a participant C of room R (R lists C and is C's current room)
\* leaves or disconnects, C is removed from R's participant set and every
\* remaining participant of R receives participantLeft carrying C's id and the
\* updated participant list, which does not contain C.
LeaveRemovesAndNotifies ==
    [][\A c \in Conns, r \in RoomIds :
          (lastEvent'.type \in {LEAVE_ROOM, DISCONNECT} /\ lastEvent'.conn = c /\ InRoom(c, r))
              => /\ lastEvent'.room = r
                 /\ r \in DOMAIN rooms' => c \notin DOMAIN rooms'[r].users
                 /\ r \in DOMAIN rooms' =>
                        /\ DOMAIN rooms'[r].users = DOMAIN rooms[r].users \ {c}
                        /\ \A d \in DOMAIN rooms'[r].users :
                               status'[d] = "connected" =>
                                   Msg(d, USER_LEFT, c, r, NoText, rooms'[r].users, NoCursor) \in out'
                 /\ r \notin DOMAIN rooms' => DOMAIN rooms[r].users = {c}
                 /\ \A m \in out' : /\ m.type = USER_LEFT /\ m.from = c /\ m.room = r
                                     /\ c \notin DOMAIN m.users
                                     /\ m.users = rooms'[r].users]_vars

\* C17 witness: a connection has just left a room or disconnected, and a
\* participant that remains in the room received participantLeft with a list
\* that holds the remaining participant alone.
DepartureAnnounced ==
    /\ lastEvent.type \in {LEAVE_ROOM, DISCONNECT}
    /\ lastEvent.room \in RoomIds
    /\ lastEvent.conn \notin joined[lastEvent.room]
    /\ \E m \in out : /\ m.type = USER_LEFT /\ m.from = lastEvent.conn
                       /\ InRoom(m.to, m.room) /\ DOMAIN m.users = {m.to}

\* C19: convergence under last-write-wins: when both connections are
\* participants of the document's room, each has sent a contentChange, and no
\* event or message is in flight any more, every client's local text equals
\* the room's stored text.
ClientsConverge ==
    (/\ \A c \in Conns : InRoom(c, ScenarioRoom) /\ inbox[c] = << >> /\ outbox[c] = << >>
     /\ \A c \in Conns : \E i \in DOMAIN issued[c] : issued[c][i].type = CODE_CHANGE)
        => \A c \in Conns : localText[c] = rooms[ScenarioRoom].content

\* C18: an unreachable LLM runtime is distinguishable from a runtime that
\* answered with an error: for a chat whose runtime cannot be reached, the
\* backend's /chat response differs from the response it gives for any error
\* answer of the runtime, and the error sendMessage ends up showing differs
\* from the one it shows for any such answer.
UnreachableRuntimeDistinct ==
    (chatCall.runtime = RuntimeUnreachable /\ chatCall.backendUp /\ chatCall.prompt # "") =>
        /\ chatCall.pc = "response" =>
               \A rt \in RuntimeErrors : chatCall.response # chatRoute(chatCall.prompt, rt)
        /\ (chatCall.pc = "idle" /\ chatCall.thrown # NoError) =>
               \A rt \in RuntimeErrors :
                   chatCall.error # shownError(HttpError(chatRoute(chatCall.prompt, rt).status))

\* C20: each departure is announced at most once: a participantLeft for
\* connection C and room R is sent only by an event before which C had joined R
\* and not left it since; in particular a leave followed by a disconnect of the
\* same connection sends no second participantLeft.
DepartureAnnouncedOnce ==
    [][\A m \in out' : m.type = USER_LEFT => m.from \in joined[m.room]]_vars

OtherRoomsUntouched ==
    [][lastEvent'.type \in {JOIN_ROOM, LEAVE_ROOM, DISCONNECT, CURSOR_MOVE, CODE_CHANGE} =>
          /\ \A r \in RoomIds \ {lastEvent'.room} :
                 /\ (r \in DOMAIN rooms') = (r \in DOMAIN rooms)
                 /\ r \in DOMAIN rooms =>
                        /\ rooms'[r].content = rooms[r].content
                        /\ DOMAIN rooms'[r].users = DOMAIN rooms[r].users
          /\ \A m \in out' : /\ m.room = lastEvent'.room
                              /\ m.to # lastEvent'.conn =>
                                     RoomsListing(m.to)' \subseteq {lastEvent'.room}]_vars

\* C23: on every client the join and leave events the editor emits alternate,
\* starting with a join: a leave for the room of the file shown before always
\* comes before the join for the next file, so no two joins follow each other
\* without a leave in between.
JoinLeaveAlternate ==
    \A c \in Conns : \A i \in DOMAIN issued[c] :
        issued[c][i].type = IF i % 2 = 1 THEN JOIN_ROOM ELSE LEAVE_ROOM

\* C23 witness: a client has switched from one file to another: it emitted a
\* join, a leave and the join for the other file's room.
SwitchedFiles ==
    \E c \in Conns :
        /\ Len(issued[c]) >= 3
        /\ issued[c][1].type = JOIN_ROOM /\ issued[c][3].type = JOIN_ROOM
        /\ issued[c][1].room # issued[c][3].room

\* C24: a room's document id is the fileId of the join that created it: a join
\* to a room that exists, with whatever fileId, leaves the room's document id
\* and its stored text as they are, and a join that creates the room gives it
\* the fileId sent and the empty text.
FileIdFixedAtCreation ==
    [][\A c \in Conns, r \in RoomIds, f \in FileIds, n \in UserNames :
          JoinRoom(c, r, f, n) =>
              IF r \in DOMAIN rooms
              THEN /\ rooms'[r].fileId = rooms[r].fileId
                   /\ rooms'[r].content = rooms[r].content
              ELSE /\ rooms'[r].fileId = f
                   /\ rooms'[r].content = Text(0)]_vars

\* C24 witness: a connection has just joined a room that another participant
\* shares and whose text was changed, while the other room exists under the
\* other document id.
JoinedRoomOfOtherFile ==
    /\ lastEvent.type = JOIN_ROOM
    /\ Cardinality(DOMAIN rooms[lastEvent.room].users) = 2
    /\ rooms[lastEvent.room].content = Text(MaxText)
    /\ \E r \in DOMAIN rooms : rooms[r].fileId # rooms[lastEvent.room].fileId

\* C25: the palette has at least 10 colors; every participant a room lists has
\* a color of the palette; a join gives the joiner's entry a color of the
\* palette whatever colors the room already holds, and leaves the colors of the
\* other participants as they are.
ColorsFromPalette ==
    /\ Len(colors) >= 10
    /\ \A r \in DOMAIN rooms :
           /\ DOMAIN userColor[r] = DOMAIN rooms[r].users
           /\ \A c \in DOMAIN userColor[r] : \E i \in DOMAIN colors : userColor[r][c] = colors[i]

\* C25 witness: two participants of one room hold the same color, and the one
\* that joined last is being told apart by its id only.
SameColorInOneRoom ==
    /\ lastEvent.type = JOIN_ROOM
    /\ \E r \in DOMAIN rooms : \E c \in DOMAIN userColor[r] : \E d \in DOMAIN userColor[r] \ {c} :
           userColor[r][c] = userColor[r][d] /\ userColor[r][c] = colors[Len(colors)]

\* C26: a chat response is a sequence of fragments terminated by a done
\* marker: for a /chat request that passed validation, either the runtime did
\* not fail and the response is the fragments it produced, in order, followed
\* by exactly one [DONE] as the last event; or the runtime failed (before or in
\* the middle of the stream) and the response is a failure result: a status
\* that is not 200 with an error message, never a 200 stream without a marker.
ChatStreamTerminated ==
    (chatCall.pc = "response" /\ chatCall.prompt # "") =>
        LET resp == chatCall.response
            produced == OllamaChat(chatCall.prompt, chatCall.runtime)
            markers == {i \in DOMAIN resp.events : resp.events[i] = Done}
        IN  IF produced.thrown = NoError
            THEN /\ resp.status = "200"
                 /\ resp.events = produced.chunks \o <<Done>>
                 /\ markers = {Len(resp.events)}
            ELSE /\ resp.status # "200"
                 /\ resp.error # NoError

\* C27: saving never hides unsaved edits: after every step, a file of the
\* store that is not dirty holds the content last written to its file on disk;
\* and when a saveFile call resumes after its write while the store holds, for
\* the file it saved, a content other than the one it wrote, the file is still
\* dirty afterwards.
SaveKeepsEditsDirty ==
    [][/\ \A i \in DOMAIN openFiles' :
            ~openFiles'[i].isDirty => openFiles'[i].content = disk'[openFiles'[i].id]
       /\ \A k \in DOMAIN writes :
            (/\ writes[k].written
             /\ Len(writes') < Len(writes)
             /\ storeCall'.name = "markFileSaved")
                => \A i \in DOMAIN openFiles' :
                       (openFiles'[i].id = writes[k].fileId
                            /\ openFiles'[i].content # writes[k].content)
                           => openFiles'[i].isDirty]_vars

\* C30: after every openFile, closeFile and setActiveFile of an open file, no
\* two open files have the same id, activeFileId is null exactly when no file
\* is open and otherwise the id of an open file; and a step that closes the
\* active file activates the file immediately before it in tab order, or the
\* new first file when the closed one was the first.
TabsConsistent ==
    [][/\ \A i, j \in DOMAIN openFiles' : openFiles'[i].id = openFiles'[j].id => i = j
       /\ (activeFileId' = NoFile) <=> (openFiles' = << >>)
       /\ activeFileId' # NoFile => activeFileId' \in OpenIds(openFiles')
       /\ \A k \in DOMAIN openFiles :
            (/\ activeFileId = openFiles[k].id
             /\ Len(openFiles') = Len(openFiles) - 1
             /\ openFiles[k].id \notin OpenIds(openFiles'))
                => activeFileId' = IF k > 1 THEN openFiles[k - 1].id
                                   ELSE IF Len(openFiles) > 1 THEN openFiles[2].id
                                   ELSE NoFile]_vars

\* The third of at least four tabs was active and was closed: the second tab
\* is active now.
ClosedActiveMiddleTab ==
    /\ storeCall.name = "closeFile"
    /\ storeCall.active = storeCall.fileId
    /\ storeCall.index = 2
    /\ Len(openFiles) >= 3
    /\ activeFileId = openFiles[2].id

OperationDecidedOnce ==
    [][/\ \A i \in DOMAIN pendingOperations :
            pendingOperations'[i].status # pendingOperations[i].status
                => /\ pendingOperations[i].status = "pending"
                   /\ pendingOperations'[i].status \in {"applied", "rejected"}
       /\ \A o \in OperationIds : Len(effects'[o]) <= 1
       /\ \A o \in DOMAIN pendingOperations :
            (pendingOperations[o].status # "pending" /\ applyOperation(o))
                => effects' = effects /\ returned' = [id |-> o, value |-> FALSE]]_vars
====
